---- MODULE Spec2Model ----
(***************************************************************************)
(* Position lifecycle and risk control of ye-meme-trader.                  *)
(*                                                                         *)
(* Spec        services/auto_trader.py: the AutoTrader orchestrator (run), *)
(*             execute_trade with its suspension points, one               *)
(*             monitor_position task per executed buy, close_position.     *)
(* SpecBreaker trading/auto_trader.py: the circuit breaker of AutoTrader.  *)
(*                                                                         *)
(* SOL amounts are in tenths of a SOL, prices of the traded token in       *)
(* arbitrary price units, wall-clock time in seconds.                      *)
(***************************************************************************)
EXTENDS Integers, FiniteSets, Sequences, TLC

\* ------------------------------------------------------------------ bounds
MaxSignals == 2
SignalIds == 1 .. MaxSignals
Tokens == {"tokA", "tokB"}
Amounts == {40, 60}
\* USD per SOL as returned by the Birdeye query; 0 stands for a failed query
SolPrices == {2, 4}
\* price of the position implied by the quote (amount_out / amount_in)
EntryPrices == {100}
\* token prices a monitor tick can fetch; 0 stands for a failed fetch
TickPrices == {85, 88, 103, 130, 150}
\* the clock advances in steps of TimeSteps seconds and stays within
\* MaxDays days plus MaxShortSteps short steps
ShortStep == 150
TimeSteps == {ShortStep, 86400}
MaxDays == 1
MaxShortSteps == 3
\* profit_loss values a trade can report, in tenths of a SOL
ProfitLoss == {-10, -5, 0, 5}
\* caps of the counters record_trade and record_error increase
MaxRecordedTrades == 11
MaxRecordedLoss == 20
MaxRecordedErrors == 4
\* consecutive failed price fetches of a monitor that are told apart
MaxFetchFailures == 2
\* consecutive failed swap attempts of a signal that are told apart
MaxAttempts == 3
MaxCancels == 1
\* trades place_trade of YeMemeTrader may accept, the prices they are placed
\* at and the prices update_trades is given (0: no price for the token)
MaxPlaced == 4
LedgerEntryPrices == {100}
LedgerTicks == {0, 85, 100, 150}
\* notifications the state file of StateManager may hold
MaxNotifications == 4
\* instances of bot.py started on one machine, and how often the lock is taken
MaxInstances == 3
Instances == 1 .. MaxInstances
MaxStarts == 3
\* processes that use one StateManager file
MaxProcesses == 3
Processes == 1 .. MaxProcesses
\* submissions sized by calculate_trade_amount, and their confidences (tenths)
MaxSubmissions == 3
Submissions == 1 .. MaxSubmissions
Confidences == {0, 5, 10}
\* USD per SOL while the submissions are made
SizingSolPrices == {1, 2}

\* ------------------------------------------------- program constants
usd_budget == 20
take_profit_pct == 50
stop_loss_pct == -15
trailing_stop_pct == 10

\* trading/auto_trader.py, AutoTrader.__init__ (losses in tenths of a SOL)
max_daily_trades == 10
max_daily_loss == 10
max_errors == 3
error_timeout == 300
datetime_min == -1000000
\* timedelta(days=1)
one_day == 86400

\* The run() loop is task 0; the monitor task of signal s is task s.
RunTask == 0
Tasks == {RunTask} \cup SignalIds

VARIABLES
    sol_budget,      \* AutoTrader.sol_budget
    signals,         \* Redis keys trade_signal:<id> -> status/token/amount
    active_trades,   \* AutoTrader.active_trades (keys)
    run_pc,          \* position of run()
    pending_trades,  \* run(): signals of this iteration not yet visited
    run_trade,       \* run(): the signal being executed (0: none)
    ex_pc,           \* per task: position inside execute_trade
    entry_price,     \* per signal: trade.params.amount_out / amount_in
    mon_pc,          \* per signal: position of its monitor_position task
    mon_reason,      \* per signal: reason passed to close_position
    mon_highest,     \* per signal: monitor_position's local highest_price
    mon_price,       \* per signal: monitor_position's local current_price
    mon_fails,       \* per signal: consecutive failed fetches of its monitor
    processed,       \* signals run() has picked up and processed
    attempts,        \* per signal: consecutive failed swap attempts of run()
    trade_action     \* signals with a Redis key trade_action:<id> = "cancel"

\* The circuit breaker of trading/auto_trader.py (a second AutoTrader class).
VARIABLES
    now,                  \* datetime.now(), seconds since construction
    daily_trades,
    daily_loss,           \* tenths of a SOL
    last_reset,
    trading_enabled,
    error_count,
    last_error_time,
    emergency_stop,
    stop_loss_triggered,
    ret                   \* what the latest breaker call returned

traderVars == << sol_budget, signals, active_trades, run_pc, pending_trades, run_trade,
                 ex_pc, entry_price, mon_pc, mon_reason, mon_highest, mon_price,
                 mon_fails, processed, attempts, trade_action >>

breakerVars == << now, daily_trades, daily_loss, last_reset, trading_enabled,
                  error_count, last_error_time, emergency_stop,
                  stop_loss_triggered, ret >>

\* execute_trade of trading/auto_trader.py: where the call stands, the action
\* it was called with and what its swap call gave.
VARIABLES
    et_pc,
    et_action,
    et_result

executeVars == << et_pc, et_action, et_result >>

\* Submissions sized by calculate_trade_amount and passed to execute_trade.
VARIABLES
    sz_pc,           \* per submission: position of its task
    sz_conf,         \* per submission: confidence, in tenths
    sz_amount        \* per submission: the trade amount calculated for it

sizingVars == << sz_pc, sz_conf, sz_amount >>

\* YeMemeTrader of trading/ye_trader.py: its shared_state.
VARIABLES
    yt_active,         \* shared_state["trade"]["active_trades"]
    yt_history,        \* shared_state["prof_e_perd"]["trades_history"]
    total_profit_sol,  \* shared_state["prof_e_perd"]["total_profit_sol"]
    yt_placed,         \* trades place_trade accepted so far (their timestamps)
    yt_ret,            \* what the latest place_trade call returned
    yt_saved           \* the state last written to shared_state.json

ledgerVars == << yt_active, yt_history, total_profit_sol, yt_placed, yt_ret, yt_saved >>

\* SolanaTrader of solana-service/trader.py and the notifications of its
\* StateManager.
VARIABLES
    st_call,           \* the latest buy_token / sell_token call and its inputs
    st_ret,            \* what that call returned
    st_notifications   \* state["notifications"] (types)

notifyVars == << st_call, st_ret, st_notifications >>

\* execute_order of the two YeMemeTrader classes (trading/trader.py and
\* trading/ye_meme_trader.py).
VARIABLES
    eo_call,           \* the latest execute_order call: what its steps met
    eo_result          \* what that call gave back

orderVars == << eo_call, eo_result >>

\* The instances of bot.py and the lock on /tmp/yebot.lock.
VARIABLES
    yebot_lock,        \* the instance holding the flock on LOCK_FILE (0: nobody)
    bot_pc,            \* per instance: where its main() is
    bot_starts         \* how many times an instance got the lock

botVars == << yebot_lock, bot_pc, bot_starts >>

\* The users of StateManager of shared_states/lock_manager.py.
VARIABLES
    flm_lock,          \* the process holding the flock on the .lock file (0: nobody)
    flm_pc,            \* per process: where it is in save_state / load_state
    flm_op,            \* per process: the operation under way
    state_file         \* the state file: "complete", or "truncated" while written

flmVars == << flm_lock, flm_pc, flm_op, state_file >>

vars == << traderVars, breakerVars, executeVars, sizingVars, ledgerVars, notifyVars,
           orderVars, botVars, flmVars >>

Min(a, b) == IF a <= b THEN a ELSE b

BuyId(s) == << "buy", s >>
SellId(s) == << "sell", s >>

\* usd_budget / sol_price, in tenths of a SOL
BudgetAt(sol_price) == (usd_budget * 10) \div sol_price

Init ==
    /\ sol_budget = 0
    /\ signals = [s \in SignalIds |-> [status |-> "none", token |-> "tokA", amount |-> 40]]
    /\ active_trades = {}
    /\ run_pc = "init"
    /\ pending_trades = {}
    /\ run_trade = 0
    /\ ex_pc = [k \in Tasks |-> "idle"]
    /\ entry_price = [s \in SignalIds |-> 0]
    /\ mon_pc = [s \in SignalIds |-> "off"]
    /\ mon_reason = [s \in SignalIds |-> "none"]
    /\ mon_highest = [s \in SignalIds |-> 0]
    /\ mon_price = [s \in SignalIds |-> 0]
    /\ mon_fails = [s \in SignalIds |-> 0]
    /\ processed = {}
    /\ attempts = [s \in SignalIds |-> 0]
    /\ now = 0
    /\ daily_trades = 0
    /\ daily_loss = 0
    /\ last_reset = 0
    /\ trading_enabled = TRUE
    /\ error_count = 0
    /\ last_error_time = datetime_min
    /\ emergency_stop = FALSE
    /\ stop_loss_triggered = FALSE
    /\ ret = "None"
    /\ et_pc = "idle"
    /\ et_action = "none"
    /\ et_result = "none"
    /\ sz_pc = [i \in Submissions |-> "new"]
    /\ sz_conf = [i \in Submissions |-> 0]
    /\ sz_amount = [i \in Submissions |-> 0]
    /\ trade_action = {}
    /\ yt_active = << >>
    /\ yt_history = << >>
    /\ total_profit_sol = 0
    /\ yt_placed = 0
    /\ yt_ret = "None"
    /\ yt_saved = [total_profit_sol |-> 0, trades_history |-> << >>, active_trades |-> << >>]
    /\ st_call = [op |-> "none", safe |-> FALSE, quoted |-> FALSE, notified |-> FALSE]
    /\ st_ret = "None"
    /\ st_notifications = << >>
    /\ eo_call = [variant |-> "none"]
    /\ eo_result = [raised |-> FALSE, success |-> FALSE, error |-> "none"]
    /\ yebot_lock = 0
    /\ bot_pc = [i \in Instances |-> "stopped"]
    /\ bot_starts = 0
    /\ flm_lock = 0
    /\ flm_pc = [p \in Processes |-> "idle"]
    /\ flm_op = [p \in Processes |-> "none"]
    /\ state_file = "complete"

\* The sol_budget after update_sol_budget saw sol_price (0: the query failed).
update_sol_budget(budget, sol_price) ==
    IF sol_price <= 0 THEN budget ELSE BudgetAt(sol_price)

\* __aenter__: the budget is computed once before run() starts.
aenter ==
    /\ run_pc = "init"
    /\ \E p \in SolPrices \cup {0} : sol_budget' = update_sol_budget(sol_budget, p)
    /\ run_pc' = "fetch"
    /\ UNCHANGED << signals, active_trades, pending_trades, run_trade, ex_pc,
                    entry_price, mon_pc, mon_reason, mon_highest, mon_price >>
    /\ UNCHANGED << mon_fails, processed, attempts, trade_action, breakerVars, executeVars, sizingVars, ledgerVars, notifyVars, orderVars, botVars, flmVars >>

\* The external scanner stores a new pending buy signal under a fresh id.
PostSignal ==
    \E s \in SignalIds, tok \in Tokens, amt \in Amounts :
        /\ signals[s].status = "none"
        /\ \A r \in SignalIds : r < s => signals[r].status # "none"
        /\ signals' = [signals EXCEPT ![s] = [status |-> "pending", token |-> tok, amount |-> amt]]
        /\ UNCHANGED << sol_budget, active_trades, run_pc, pending_trades, run_trade,
                        ex_pc, entry_price, mon_pc, mon_reason, mon_highest, mon_price >>
        /\ UNCHANGED << mon_fails, processed, attempts, trade_action, breakerVars, executeVars, sizingVars, ledgerVars, notifyVars, orderVars, botVars, flmVars >>

\* get_pending_trades
get_pending_trades ==
    /\ run_pc = "fetch"
    /\ pending_trades' = {s \in SignalIds : signals[s].status = "pending"}
    /\ run_pc' = "loop"
    /\ UNCHANGED << sol_budget, signals, active_trades, run_trade, ex_pc,
                    entry_price, mon_pc, mon_reason, mon_highest, mon_price >>
    /\ UNCHANGED << mon_fails, processed, attempts, trade_action, breakerVars, executeVars, sizingVars, ledgerVars, notifyVars, orderVars, botVars, flmVars >>

\* run(): the next trade of `for trade in pending_trades`; a trade whose
\* check_trade_conditions fails is skipped, the others enter execute_trade.
run_visit ==
    /\ run_pc = "loop"
    /\ \E s \in pending_trades, conditions_met \in BOOLEAN :
        /\ pending_trades' = pending_trades \ {s}
        /\ processed' = processed \cup {s}
        /\ IF conditions_met
           THEN /\ run_trade' = s
                /\ run_pc' = "exec"
                /\ ex_pc' = [ex_pc EXCEPT ![RunTask] = "start"]
           ELSE UNCHANGED << run_trade, run_pc, ex_pc >>
    /\ UNCHANGED << sol_budget, signals, active_trades, entry_price,
                    mon_pc, mon_reason, mon_highest, mon_price >>
    /\ UNCHANGED << mon_fails, attempts, trade_action, breakerVars, executeVars, sizingVars, ledgerVars, notifyVars, orderVars, botVars, flmVars >>

\* run(): the list is exhausted, sleep and start the next iteration.
run_sleep ==
    /\ run_pc = "loop"
    /\ pending_trades = {}
    /\ run_pc' = "fetch"
    /\ UNCHANGED << sol_budget, signals, active_trades, pending_trades, run_trade,
                    ex_pc, entry_price, mon_pc, mon_reason, mon_highest, mon_price >>
    /\ UNCHANGED << mon_fails, processed, attempts, trade_action, breakerVars, executeVars, sizingVars, ledgerVars, notifyVars, orderVars, botVars, flmVars >>

\* run(): execute_trade returned; on True a monitor_position task is created.
run_resume ==
    /\ run_pc = "exec"
    /\ ex_pc[RunTask] \in {"true", "false"}
    /\ mon_pc' = IF ex_pc[RunTask] = "true"
                 THEN [mon_pc EXCEPT ![run_trade] = "poll"]
                 ELSE mon_pc
    /\ ex_pc' = [ex_pc EXCEPT ![RunTask] = "idle"]
    /\ run_pc' = "loop"
    /\ run_trade' = 0
    /\ UNCHANGED << sol_budget, signals, active_trades, pending_trades,
                    entry_price, mon_reason, mon_highest, mon_price >>
    /\ UNCHANGED << mon_fails, processed, attempts, trade_action, breakerVars, executeVars, sizingVars, ledgerVars, notifyVars, orderVars, botVars, flmVars >>

\* The trade a task's execute_trade call works on: run() executes the buy of
\* run_trade, the monitor of signal s the sell that closes s.
IsBuy(k) == k = RunTask
SignalOf(k) == IF k = RunTask THEN run_trade ELSE k
TradeId(k) == IF IsBuy(k) THEN BuyId(SignalOf(k)) ELSE SellId(SignalOf(k))
amount_sol(k) == signals[SignalOf(k)].amount

\* execute_trade, up to the first suspension: update_sol_budget.
execute_trade_update(k) ==
    /\ ex_pc[k] = "start"
    /\ \E p \in SolPrices \cup {0} : sol_budget' = update_sol_budget(sol_budget, p)
    /\ ex_pc' = [ex_pc EXCEPT ![k] = "check"]
    /\ UNCHANGED << signals, active_trades, run_pc, pending_trades, run_trade,
                    entry_price, mon_pc, mon_reason, mon_highest, mon_price >>
    /\ UNCHANGED << mon_fails, processed, attempts, trade_action, breakerVars, executeVars, sizingVars, ledgerVars, notifyVars, orderVars, botVars, flmVars >>

\* The budget test of execute_trade.
InsufficientBudget(is_buy, amount, budget) == is_buy /\ amount > budget

\* execute_trade: the budget test, then the quote and the swap (external).
execute_trade_swap(k) ==
    /\ ex_pc[k] = "check"
    /\ IF InsufficientBudget(IsBuy(k), amount_sol(k), sol_budget)
       THEN /\ ex_pc' = [ex_pc EXCEPT ![k] = "false"]
            /\ UNCHANGED << entry_price, attempts >>
       ELSE \E outcome \in {"no_quote", "swap_failed", "swapped"}, e \in EntryPrices :
            IF outcome = "swapped"
            THEN /\ ex_pc' = [ex_pc EXCEPT ![k] = "commit"]
                 /\ entry_price' = IF IsBuy(k)
                                   THEN [entry_price EXCEPT ![SignalOf(k)] = e]
                                   ELSE entry_price
                 /\ attempts' = IF IsBuy(k)
                                THEN [attempts EXCEPT ![SignalOf(k)] = 0]
                                ELSE attempts
            ELSE /\ ex_pc' = [ex_pc EXCEPT ![k] = "false"]
                 /\ attempts' = IF IsBuy(k)
                                THEN [attempts EXCEPT ![SignalOf(k)] = Min(@ + 1, MaxAttempts)]
                                ELSE attempts
                 /\ UNCHANGED entry_price
    /\ UNCHANGED << sol_budget, signals, active_trades, run_pc, pending_trades,
                    run_trade, mon_pc, mon_reason, mon_highest, mon_price >>
    /\ UNCHANGED << mon_fails, processed, trade_action, breakerVars, executeVars, sizingVars, ledgerVars, notifyVars, orderVars, botVars, flmVars >>

\* The budget after a successful trade of `amount`.
settle_budget(budget, is_buy, amount) ==
    IF is_buy THEN budget - amount ELSE budget + amount

\* execute_trade after a successful swap: the trade is stored in Redis (a
\* failure raises and execute_trade returns False), entered into
\* active_trades, the budget is settled and stored (a failure raises too).
execute_trade_commit(k) ==
    /\ ex_pc[k] = "commit"
    /\ \E stored \in BOOLEAN, saved \in BOOLEAN :
        IF ~stored
        THEN /\ ex_pc' = [ex_pc EXCEPT ![k] = "false"]
             /\ UNCHANGED << sol_budget, signals, active_trades >>
        ELSE /\ signals' = IF IsBuy(k)
                           THEN [signals EXCEPT ![SignalOf(k)].status = "executed"]
                           ELSE signals
             /\ active_trades' = active_trades \cup {TradeId(k)}
             /\ sol_budget' = settle_budget(sol_budget, IsBuy(k), amount_sol(k))
             /\ ex_pc' = [ex_pc EXCEPT ![k] = IF saved THEN "true" ELSE "false"]
    /\ UNCHANGED << run_pc, pending_trades, run_trade, entry_price,
                    mon_pc, mon_reason, mon_highest, mon_price >>
    /\ UNCHANGED << mon_fails, processed, attempts, trade_action, breakerVars, executeVars, sizingVars, ledgerVars, notifyVars, orderVars, botVars, flmVars >>

Max(a, b) == IF a >= b THEN a ELSE b

\* monitor_position: the exit tests in the order of the loop body, with
\* price_change_pct = (current - initial) / initial * 100.
take_profit_hit(initial, current) ==
    (current - initial) * 100 >= take_profit_pct * initial
stop_loss_hit(initial, current) ==
    (current - initial) * 100 <= stop_loss_pct * initial
highest_price(initial, current) == Max(initial, current)
trailing_stop_hit(highest, current) ==
    current * 100 < highest * (100 - trailing_stop_pct)

ExitReason(initial, current) ==
    IF take_profit_hit(initial, current) THEN "take_profit"
    ELSE IF stop_loss_hit(initial, current) THEN "stop_loss"
    ELSE IF trailing_stop_hit(highest_price(initial, current), current) THEN "trailing_stop"
    ELSE "none"

\* What the monitor does after close_position returned: the loop is left.
after_close_no_break == "poll"
after_close == "done"

\* Where the monitor goes after a failed fetch (nothing returned, or a price
\* that is not positive): it sleeps and polls again.
after_failed_fetch_break == "done"
after_failed_fetch == "poll"

\* One pass of the loop of monitor_position for the position of signal s.
monitor_position(s) ==
    /\ mon_pc[s] = "poll"
    /\ \E price \in TickPrices \cup {0} :
        IF price <= 0
        THEN /\ mon_fails' = [mon_fails EXCEPT ![s] = Min(@ + 1, MaxFetchFailures)]
             /\ mon_pc' = [mon_pc EXCEPT ![s] = after_failed_fetch]
             /\ UNCHANGED << mon_reason, mon_highest, mon_price, ex_pc >>
        ELSE LET reason == ExitReason(entry_price[s], price) IN
             /\ mon_fails' = [mon_fails EXCEPT ![s] = 0]
             /\ mon_price' = [mon_price EXCEPT ![s] = price]
             /\ mon_highest' = IF reason \in {"take_profit", "stop_loss"}
                               THEN mon_highest
                               ELSE [mon_highest EXCEPT ![s] = highest_price(entry_price[s], price)]
             /\ IF reason = "none"
                THEN UNCHANGED << mon_pc, mon_reason, ex_pc >>
                ELSE /\ mon_reason' = [mon_reason EXCEPT ![s] = reason]
                     /\ mon_pc' = [mon_pc EXCEPT ![s] = "closing"]
                     /\ ex_pc' = [ex_pc EXCEPT ![s] = "start"]
    /\ UNCHANGED << sol_budget, signals, active_trades, run_pc, pending_trades,
                    run_trade, entry_price >>
    /\ UNCHANGED << processed, attempts, trade_action, breakerVars, executeVars, sizingVars, ledgerVars, notifyVars, orderVars, botVars, flmVars >>

\* close_position after its execute_trade(sell_trade) returned, and the
\* `break` of the monitor that called it (the locals of a monitor that left
\* its loop are gone).
close_position(s) ==
    /\ mon_pc[s] = "closing"
    /\ ex_pc[s] \in {"true", "false"}
    /\ IF ex_pc[s] = "true"
       THEN /\ active_trades' = active_trades \ {BuyId(s)}
            /\ \E deleted \in BOOLEAN :
                signals' = IF deleted
                           THEN [signals EXCEPT ![s].status = "deleted"]
                           ELSE signals
       ELSE UNCHANGED << active_trades, signals >>
    /\ ex_pc' = [ex_pc EXCEPT ![s] = "idle"]
    /\ mon_pc' = [mon_pc EXCEPT ![s] = after_close]
    /\ mon_highest' = [mon_highest EXCEPT ![s] = 0]
    /\ mon_price' = [mon_price EXCEPT ![s] = 0]
    /\ mon_fails' = [mon_fails EXCEPT ![s] = 0]
    /\ UNCHANGED << sol_budget, run_pc, pending_trades, run_trade, entry_price,
                    mon_reason >>
    /\ UNCHANGED << processed, attempts, trade_action, breakerVars, executeVars, sizingVars, ledgerVars, notifyVars, orderVars, botVars, flmVars >>

Next ==
    \/ aenter
    \/ PostSignal
    \/ get_pending_trades
    \/ run_visit
    \/ run_sleep
    \/ run_resume
    \/ \E k \in Tasks : execute_trade_update(k)
    \/ \E k \in Tasks : execute_trade_swap(k)
    \/ \E k \in Tasks : execute_trade_commit(k)
    \/ \E s \in SignalIds : monitor_position(s)
    \/ \E s \in SignalIds : close_position(s)

Spec == Init /\ [][Next]_vars

\* ------------------------- the cancel button of the Telegram bot (SpecCancel)
\* TelegramService.handle_callback on "cancel_trade:<id>": set_trade_action
\* stores "cancel" under trade_action:<id>; a failing store is logged and that
\* is all.
handle_callback(s) ==
    /\ Cardinality(trade_action) < MaxCancels
    /\ \E stored \in BOOLEAN :
        trade_action' = IF stored THEN trade_action \cup {s} ELSE trade_action
    /\ trade_action' # trade_action
    /\ UNCHANGED << sol_budget, signals, active_trades, run_pc, pending_trades,
                    run_trade, ex_pc, entry_price, mon_pc, mon_reason,
                    mon_highest, mon_price, mon_fails, processed, attempts >>
    /\ UNCHANGED << breakerVars, executeVars, sizingVars, ledgerVars, notifyVars, orderVars, botVars, flmVars >>

\* The key of set_trade_action expires after five minutes.
expire_trade_action(s) ==
    /\ s \in trade_action
    /\ trade_action' = trade_action \ {s}
    /\ UNCHANGED << sol_budget, signals, active_trades, run_pc, pending_trades,
                    run_trade, ex_pc, entry_price, mon_pc, mon_reason,
                    mon_highest, mon_price, mon_fails, processed, attempts >>
    /\ UNCHANGED << breakerVars, executeVars, sizingVars, ledgerVars, notifyVars, orderVars, botVars, flmVars >>

\* The orchestrator next to the bot that shares its Redis.
NextCancel ==
    \/ Next
    \/ \E s \in SignalIds : handle_callback(s)
    \/ \E s \in SignalIds : expire_trade_action(s)

SpecCancel == Init /\ [][NextCancel]_vars

\* --------------------------------- trade sizing and submission (SpecSizing)
\* TRADING_CONFIG, in tenths of a SOL
min_trade_amount_sol == 1
max_trade_amount_sol == 50

\* calculate_trade_amount after its update_sol_budget: half of the budget
\* times the confidence (tenths), capped by max_trade_amount_sol and by the
\* budget, raised to min_trade_amount_sol; rounded down to a tenth of a SOL.
calculate_trade_amount_no_floor(budget, confidence) ==
    Min(Min((budget * 5 * confidence) \div 100, max_trade_amount_sol), budget)
calculate_trade_amount(budget, confidence) ==
    LET trade_amount == (budget * 5 * confidence) \div 100
    IN  Max(Min(Min(trade_amount, max_trade_amount_sol), budget), min_trade_amount_sol)

\* calculate_trade_amount up to the suspension inside update_sol_budget.
size_update(i) ==
    /\ sz_pc[i] = "new"
    /\ \E confidence \in Confidences, p \in SizingSolPrices \cup {0} :
        /\ sol_budget' = update_sol_budget(sol_budget, p)
        /\ sz_conf' = [sz_conf EXCEPT ![i] = confidence]
    /\ sz_pc' = [sz_pc EXCEPT ![i] = "sizing"]
    /\ UNCHANGED << sz_amount, signals, active_trades, run_pc, pending_trades,
                    run_trade, ex_pc, entry_price, mon_pc, mon_reason,
                    mon_highest, mon_price >>
    /\ UNCHANGED << mon_fails, processed, attempts, trade_action, breakerVars, executeVars, ledgerVars, notifyVars, orderVars, botVars, flmVars >>

\* calculate_trade_amount from there to its return.
size_amount(i) ==
    /\ sz_pc[i] = "sizing"
    /\ sz_amount' = [sz_amount EXCEPT ![i] = calculate_trade_amount(sol_budget, sz_conf[i])]
    /\ sz_pc' = [sz_pc EXCEPT ![i] = "sized"]
    /\ UNCHANGED << sz_conf, traderVars, breakerVars, executeVars, ledgerVars, notifyVars, orderVars, botVars, flmVars >>

\* execute_trade of the buy of submission i, up to the first suspension.
submit_update(i) ==
    /\ sz_pc[i] = "sized"
    /\ \E p \in SizingSolPrices \cup {0} : sol_budget' = update_sol_budget(sol_budget, p)
    /\ sz_pc' = [sz_pc EXCEPT ![i] = "check"]
    /\ UNCHANGED << sz_conf, sz_amount, signals, active_trades, run_pc,
                    pending_trades, run_trade, ex_pc, entry_price, mon_pc,
                    mon_reason, mon_highest, mon_price >>
    /\ UNCHANGED << mon_fails, processed, attempts, trade_action, breakerVars, executeVars, ledgerVars, notifyVars, orderVars, botVars, flmVars >>

\* execute_trade: the budget test, then the quote and the swap.
submit_swap(i) ==
    /\ sz_pc[i] = "check"
    /\ IF InsufficientBudget(TRUE, sz_amount[i], sol_budget)
       THEN sz_pc' = [sz_pc EXCEPT ![i] = "rejected"]
       ELSE \E swapped \in BOOLEAN :
            sz_pc' = [sz_pc EXCEPT ![i] = IF swapped THEN "commit" ELSE "failed"]
    /\ UNCHANGED << sz_conf, sz_amount, traderVars, breakerVars, executeVars, ledgerVars, notifyVars, orderVars, botVars, flmVars >>

\* execute_trade after a successful swap: the trade is stored (a failure
\* raises), entered into active_trades, and its amount leaves the budget.
submit_commit(i) ==
    /\ sz_pc[i] = "commit"
    /\ \E stored \in BOOLEAN :
        IF stored
        THEN /\ active_trades' = active_trades \cup {<< "submission", i >>}
             /\ sol_budget' = settle_budget(sol_budget, TRUE, sz_amount[i])
             /\ sz_pc' = [sz_pc EXCEPT ![i] = "reserved"]
        ELSE /\ sz_pc' = [sz_pc EXCEPT ![i] = "failed"]
             /\ UNCHANGED << sol_budget, active_trades >>
    /\ UNCHANGED << sz_conf, sz_amount, signals, run_pc,
                    pending_trades, run_trade, ex_pc, entry_price, mon_pc,
                    mon_reason, mon_highest, mon_price >>
    /\ UNCHANGED << mon_fails, processed, attempts, trade_action, breakerVars, executeVars, ledgerVars, notifyVars, orderVars, botVars, flmVars >>

NextSizing ==
    \/ \E i \in Submissions : size_update(i)
    \/ \E i \in Submissions : size_amount(i)
    \/ \E i \in Submissions : submit_update(i)
    \/ \E i \in Submissions : submit_swap(i)
    \/ \E i \in Submissions : submit_commit(i)

SpecSizing == Init /\ [][NextSizing]_vars

\* ------------------------------------------- circuit breaker (SpecBreaker)
\* reset_daily_limits: has the 24h window expired?
window_expired(t, reset_at) == t - reset_at > one_day

\* check_circuit_breaker after reset_daily_limits: the tests in the order of
\* the code; gives the return value, stop_loss_triggered and error_count.
breaker_decision_strict(stopped, triggered, trades, loss, errors, since_error, enabled) ==
    IF stopped THEN [ret |-> FALSE, triggered |-> triggered, errors |-> errors]
    ELSE IF triggered THEN [ret |-> FALSE, triggered |-> triggered, errors |-> errors]
    ELSE IF trades > max_daily_trades
        THEN [ret |-> FALSE, triggered |-> triggered, errors |-> errors]
    ELSE IF loss >= max_daily_loss
        THEN [ret |-> FALSE, triggered |-> TRUE, errors |-> errors]
    ELSE IF errors >= max_errors
        THEN IF since_error < error_timeout
             THEN [ret |-> FALSE, triggered |-> triggered, errors |-> errors]
             ELSE [ret |-> enabled, triggered |-> triggered, errors |-> 0]
    ELSE [ret |-> enabled, triggered |-> triggered, errors |-> errors]
breaker_decision(stopped, triggered, trades, loss, errors, since_error, enabled) ==
    IF stopped THEN [ret |-> FALSE, triggered |-> triggered, errors |-> errors]
    ELSE IF triggered THEN [ret |-> FALSE, triggered |-> triggered, errors |-> errors]
    ELSE IF trades >= max_daily_trades
        THEN [ret |-> FALSE, triggered |-> triggered, errors |-> errors]
    ELSE IF loss >= max_daily_loss
        THEN [ret |-> FALSE, triggered |-> TRUE, errors |-> errors]
    ELSE IF errors >= max_errors
        THEN IF since_error < error_timeout
             THEN [ret |-> FALSE, triggered |-> triggered, errors |-> errors]
             ELSE [ret |-> enabled, triggered |-> triggered, errors |-> 0]
    ELSE [ret |-> enabled, triggered |-> triggered, errors |-> errors]

PyBool(b) == IF b THEN "True" ELSE "False"

\* emergency_stop after reset_daily_limits: the reset of an expired window
\* sets the counters and last_reset, the stop flag is not among them.
stop_cleared_by_reset(stopped, due) == stopped /\ ~due
stop_after_reset(stopped, due) == stopped

\* What a call of check_circuit_breaker() does: reset_daily_limits, then the
\* tests; ret is what it returns.
circuit_breaker_call ==
    LET due == window_expired(now, last_reset)
        trades == IF due THEN 0 ELSE daily_trades
        loss == IF due THEN 0 ELSE daily_loss
        errors == IF due THEN 0 ELSE error_count
        d == breaker_decision(emergency_stop, stop_loss_triggered, trades, loss,
                              errors, now - last_error_time, trading_enabled)
    IN  /\ daily_trades' = trades
        /\ daily_loss' = loss
        /\ last_reset' = IF due THEN now ELSE last_reset
        /\ error_count' = d.errors
        /\ stop_loss_triggered' = d.triggered
        /\ ret' = PyBool(d.ret)
        /\ emergency_stop' = stop_after_reset(emergency_stop, due)
        /\ UNCHANGED << now, last_error_time, trading_enabled >>

\* check_circuit_breaker() called on its own.
check_circuit_breaker ==
    /\ circuit_breaker_call
    /\ UNCHANGED << traderVars, executeVars, sizingVars, ledgerVars, notifyVars, orderVars, botVars, flmVars >>

\* record_error()
record_error ==
    /\ error_count < MaxRecordedErrors
    /\ error_count' = error_count + 1
    /\ last_error_time' = now
    /\ ret' = "None"
    /\ UNCHANGED << now, daily_trades, daily_loss, last_reset, trading_enabled,
                    emergency_stop, stop_loss_triggered, traderVars,
                        executeVars, sizingVars, ledgerVars, notifyVars, orderVars, botVars, flmVars >>

\* record_trade: the daily loss after a trade with result profit_loss.
loss_after_trade_netted(loss, profit_loss) == loss - profit_loss
loss_after_trade(loss, profit_loss) ==
    IF profit_loss < 0 THEN loss + (0 - profit_loss) ELSE loss

\* record_trade(profit_loss)
record_trade ==
    \E profit_loss \in ProfitLoss :
        /\ daily_trades < MaxRecordedTrades
        /\ daily_loss - profit_loss <= MaxRecordedLoss
        /\ daily_trades' = daily_trades + 1
        /\ daily_loss' = loss_after_trade(daily_loss, profit_loss)
        /\ ret' = "None"
        /\ UNCHANGED << now, last_reset, trading_enabled, error_count, last_error_time,
                        emergency_stop, stop_loss_triggered, traderVars,
                        executeVars, sizingVars, ledgerVars, notifyVars, orderVars, botVars, flmVars >>

\* emergency_shutdown()
emergency_shutdown ==
    /\ emergency_stop' = TRUE
    /\ trading_enabled' = FALSE
    /\ ret' = "None"
    /\ UNCHANGED << now, daily_trades, daily_loss, last_reset, error_count,
                    last_error_time, stop_loss_triggered, traderVars,
                        executeVars, sizingVars, ledgerVars, notifyVars, orderVars, botVars, flmVars >>

\* Time passes between two calls.
Tick ==
    \E d \in TimeSteps :
        /\ (now + d) \div one_day <= MaxDays
        /\ (now + d) % one_day <= MaxShortSteps * ShortStep
        /\ now' = now + d
        /\ UNCHANGED << daily_trades, daily_loss, last_reset, trading_enabled,
                        error_count, last_error_time, emergency_stop,
                        stop_loss_triggered, ret, traderVars,
                        executeVars, sizingVars, ledgerVars, notifyVars, orderVars, botVars, flmVars >>

NextBreaker ==
    \/ check_circuit_breaker
    \/ record_error
    \/ record_trade
    \/ emergency_shutdown
    \/ Tick

SpecBreaker == Init /\ [][NextBreaker]_vars

\* ------------------------- execute_trade of the breaker class (SpecExecute)
\* Where execute_trade goes after its check_circuit_breaker() call.
first_step_unchecked(allowed) == "balance"
first_step(allowed) == IF allowed = "True" THEN "balance" ELSE "idle"

\* execute_trade(token_address, action): the circuit breaker test.
breaker_execute_trade ==
    /\ et_pc = "idle"
    /\ circuit_breaker_call
    /\ \E action \in {"buy", "sell"} :
        /\ et_pc' = first_step(ret')
        /\ et_action' = action
        /\ et_result' = IF et_pc' = "idle" THEN "skipped" ELSE "none"
    /\ UNCHANGED << traderVars, sizingVars, ledgerVars, notifyVars, orderVars, botVars, flmVars >>

\* execute_trade: the balance query (get_sol_balance gives 0.0 on an error).
breaker_execute_balance ==
    /\ et_pc = "balance"
    /\ \E sufficient \in BOOLEAN :
        IF ~sufficient
        THEN /\ et_pc' = "idle"
             /\ UNCHANGED et_action
             /\ et_result' = "insufficient"
        ELSE /\ et_pc' = IF et_action = "buy" THEN "validate" ELSE "swap"
             /\ UNCHANGED << et_action, et_result >>
    /\ UNCHANGED << breakerVars, traderVars, sizingVars, ledgerVars, notifyVars, orderVars, botVars, flmVars >>

\* validate_token: the name test comes first, the others follow.
validate_token(ye_name, others_pass) == ye_name /\ others_pass

\* error_count after execute_trade turned a token down: the branch logs a
\* warning and returns, record_error() is not called.
rejection_errors_recorded(errors) == errors + 1
rejection_errors(errors) == errors

\* execute_trade("buy"): validate_token({"address": token_address}); a token
\* given by its address alone has no name and no symbol.
breaker_execute_validate ==
    /\ et_pc = "validate"
    /\ \E others_pass \in BOOLEAN :
        IF validate_token(FALSE, others_pass)
        THEN /\ et_pc' = "swap"
             /\ UNCHANGED << et_action, et_result, error_count >>
        ELSE /\ et_pc' = "idle"
             /\ UNCHANGED et_action
             /\ et_result' = "invalid"
             /\ error_count' = rejection_errors(error_count)
    /\ UNCHANGED << now, daily_trades, daily_loss, last_reset, trading_enabled,
                    last_error_time, emergency_stop, stop_loss_triggered, ret,
                    traderVars, sizingVars, ledgerVars, notifyVars, orderVars, botVars, flmVars >>

\* execute_trade: the buy_token / sell_token call of the trading client and
\* what follows it: a result is recorded as a trade, an exception as an
\* error, and a call that returns nothing is not recorded at all.
breaker_execute_swap ==
    /\ et_pc = "swap"
    /\ \E outcome \in {"raised", "no_result", "recorded"}, profit_loss \in ProfitLoss :
        /\ et_result' = outcome
        /\ IF outcome = "raised"
           THEN /\ error_count < MaxRecordedErrors
                /\ error_count' = error_count + 1
                /\ last_error_time' = now
                /\ UNCHANGED << daily_trades, daily_loss >>
           ELSE IF outcome = "recorded"
           THEN /\ daily_trades < MaxRecordedTrades
                /\ daily_loss - profit_loss <= MaxRecordedLoss
                /\ daily_trades' = daily_trades + 1
                /\ daily_loss' = loss_after_trade(daily_loss, profit_loss)
                /\ UNCHANGED << error_count, last_error_time >>
           ELSE UNCHANGED << daily_trades, daily_loss, error_count, last_error_time >>
    /\ et_pc' = "idle"
    /\ UNCHANGED et_action
    /\ UNCHANGED << now, last_reset, trading_enabled, emergency_stop,
                    stop_loss_triggered, ret, traderVars, sizingVars, ledgerVars, notifyVars, orderVars, botVars, flmVars >>

\* execute_trade is the only caller of check_circuit_breaker, record_trade
\* and record_error; emergency_shutdown is called from outside.
NextExecute ==
    \/ breaker_execute_trade
    \/ breaker_execute_balance
    \/ breaker_execute_validate
    \/ breaker_execute_swap
    \/ emergency_shutdown
    \/ Tick

SpecExecute == Init /\ [][NextExecute]_vars

\* ------------------------------ YeMemeTrader of ye_trader.py (SpecLedger)
max_concurrent_trades == 3
stop_loss_percentage == 15
take_profit_percentage == 50
\* INITIAL_INVESTMENT, in tenths of a SOL
initial_investment == 1

\* place_trade(token_info): turned down when max_concurrent_trades trades
\* are active, else the trade is appended to active_trades.
\* The test at the head of place_trade.
limit_reached_off_by_one(active) == Len(active) > max_concurrent_trades
limit_reached(active) == Len(active) >= max_concurrent_trades

\* save_shared_state(): the file after the call; a failing write is logged
\* and leaves the file as it was.
save_shared_state(file, state, written) == IF written THEN state ELSE file

place_trade ==
    /\ \E address \in Tokens, price \in LedgerEntryPrices, written \in BOOLEAN :
        IF limit_reached(yt_active)
        THEN /\ yt_ret' = "False"
             /\ UNCHANGED << yt_active, yt_placed, yt_saved >>
        ELSE /\ yt_placed < MaxPlaced
             /\ yt_active' = Append(yt_active,
                    [token_address |-> address,
                     entry_price |-> price,
                     amount_sol |-> initial_investment,
                     stop_loss |-> (price * (100 - stop_loss_percentage)) \div 100,
                     take_profit |-> (price * (100 + take_profit_percentage)) \div 100,
                     timestamp |-> yt_placed + 1])
             /\ yt_saved' = save_shared_state(yt_saved,
                    [total_profit_sol |-> total_profit_sol,
                     trades_history |-> yt_history,
                     active_trades |-> yt_active'], written)
             /\ yt_placed' = yt_placed + 1
             /\ yt_ret' = "True"
    /\ UNCHANGED << yt_history, total_profit_sol >>
    /\ UNCHANGED << traderVars, breakerVars, executeVars, sizingVars, notifyVars, orderVars, botVars, flmVars >>

\* list.remove(trade): the list without its first element equal to trade.
active_trades_kept(active, trade) == active
active_trades_remove(active, trade) ==
    LET i == CHOOSE n \in 1 .. Len(active) :
                 active[n] = trade /\ \A m \in 1 .. n - 1 : active[m] # trade
    IN  SubSeq(active, 1, i - 1) \o SubSeq(active, i + 1, Len(active))

\* close_trade(trade, current_price, reason) on the shared state st, whose
\* field file is the saved copy.
close_trade(st, trade, current_price, reason, written) ==
    LET profit_sol == (current_price - trade.entry_price) * trade.amount_sol
        state == [total_profit_sol |-> st.total_profit_sol + profit_sol,
                  trades_history |-> Append(st.trades_history,
                                            [timestamp |-> trade.timestamp,
                                             token_address |-> trade.token_address,
                                             exit_price |-> current_price,
                                             profit_sol |-> profit_sol,
                                             reason |-> reason]),
                  active_trades |-> active_trades_remove(st.active_trades, trade)]
    IN  [total_profit_sol |-> state.total_profit_sol,
         trades_history |-> state.trades_history,
         active_trades |-> state.active_trades,
         file |-> save_shared_state(st.file, state, written)]

\* The body of the loop of update_trades for one trade of the copied list.
update_one_trade(st, trade, current_prices, written) ==
    LET current_price == current_prices[trade.token_address]
    IN  IF current_price = 0 THEN st
        ELSE IF current_price <= trade.stop_loss
            THEN close_trade(st, trade, current_price, "stop_loss", written)
        ELSE IF current_price >= trade.take_profit
            THEN close_trade(st, trade, current_price, "take_profit", written)
        ELSE st

\* for trade in active_trades[:], from the n-th trade of the copy on.
\* writes[n]: does the save of the n-th trade's close_trade succeed?
RECURSIVE update_trades_loop(_, _, _, _, _)
update_trades_loop(st, copy, n, current_prices, writes) ==
    IF n > Len(copy) THEN st
    ELSE update_trades_loop(update_one_trade(st, copy[n], current_prices, writes[n]),
                            copy, n + 1, current_prices, writes)

\* update_trades(current_prices); it has no suspension point.
update_trades ==
    /\ \E current_prices \in [Tokens -> LedgerTicks],
          writes \in [1 .. Len(yt_active) -> BOOLEAN] :
        LET st == update_trades_loop(
                      [total_profit_sol |-> total_profit_sol,
                       trades_history |-> yt_history,
                       active_trades |-> yt_active,
                       file |-> yt_saved],
                      yt_active, 1, current_prices, writes)
        IN  /\ yt_active' = st.active_trades
            /\ yt_history' = st.trades_history
            /\ total_profit_sol' = st.total_profit_sol
            /\ yt_saved' = st.file
    /\ UNCHANGED << yt_placed, yt_ret >>
    /\ UNCHANGED << traderVars, breakerVars, executeVars, sizingVars, notifyVars, orderVars, botVars, flmVars >>

NextLedger ==
    \/ place_trade
    \/ update_trades

SpecLedger == Init /\ [][NextLedger]_vars

\* ------------------------- SolanaTrader of solana-service (SpecNotify)
\* What buy_token / sell_token return: False when the safety check fails, and
\* False from the except branch when the quote or add_notification raises.
trade_result(safe, quoted, notified) ==
    IF ~safe THEN "False"
    ELSE IF ~quoted THEN "False"
    ELSE IF ~notified THEN "False"
    ELSE "True"

\* state["notifications"] after the call: add_notification is reached when
\* the checks and the quote went through, and appends unless it raises.
notifications_after(notifications, type, safe, quoted, notified) ==
    IF safe /\ quoted /\ notified THEN Append(notifications, type) ELSE notifications

\* buy_token(token_address, amount_sol)
buy_token ==
    /\ Len(st_notifications) < MaxNotifications
    /\ \E safe \in BOOLEAN, quoted \in BOOLEAN, notified \in BOOLEAN :
        /\ st_call' = [op |-> "buy", safe |-> safe, quoted |-> quoted, notified |-> notified]
        /\ st_ret' = trade_result(safe, quoted, notified)
        /\ st_notifications' =
               notifications_after(st_notifications, "trade_opened", safe, quoted, notified)
    /\ UNCHANGED << traderVars, breakerVars, executeVars, sizingVars, ledgerVars, orderVars, botVars, flmVars >>

\* sell_token(token_address, amount): there is no safety check.
sell_token ==
    /\ Len(st_notifications) < MaxNotifications
    /\ \E quoted \in BOOLEAN, notified \in BOOLEAN :
        /\ st_call' = [op |-> "sell", safe |-> TRUE, quoted |-> quoted, notified |-> notified]
        /\ st_ret' = trade_result(TRUE, quoted, notified)
        /\ st_notifications' =
               notifications_after(st_notifications, "trade_closed", TRUE, quoted, notified)
    /\ UNCHANGED << traderVars, breakerVars, executeVars, sizingVars, ledgerVars, orderVars, botVars, flmVars >>

NextNotify ==
    \/ buy_token
    \/ sell_token

SpecNotify == Init /\ [][NextNotify]_vars

\* ------------------------------ execute_order of YeMemeTrader (SpecOrder)
\* What an awaited collaborator call gives: a value, nothing (None, empty),
\* or an exception; and what execute_jupiter_swap gives: a dict with success
\* and txHash, one with success false, one with success but no txHash, None,
\* or an exception.
Outcomes == {"ok", "none", "raise"}
SwapOutcomes == {"sent", "failed", "no_hash", "none", "raise"}

\* A result dict returned by a `return` of the body.
order_result(success, error) == [raised |-> FALSE, success |-> success, error |-> error]

\* The except branch of execute_order: the exception is logged and turned
\* into a failure result.
on_exception_propagates(reason) == [raised |-> TRUE, success |-> FALSE, error |-> "none"]
on_exception(reason) == order_result(FALSE, reason)

\* execute_order of trading/trader.py: every failure is a raise inside the try.
trader_execute_order(has_amount, price, route, impact_high, tx) ==
    IF ~has_amount THEN on_exception("Must specify either amount_usd or amount")
    ELSE IF price = "raise" THEN on_exception("exception")
    ELSE IF price = "none" THEN on_exception("Could not get current price")
    ELSE IF route = "raise" THEN on_exception("exception")
    ELSE IF route = "none" THEN on_exception("Could not find a valid route")
    ELSE IF impact_high THEN on_exception("Price impact too high")
    ELSE IF tx = "raise" THEN on_exception("exception")
    ELSE IF tx = "none" THEN on_exception("exception")
    ELSE IF tx = "failed" THEN on_exception("Transaction failed")
    ELSE IF tx = "no_hash" THEN on_exception("exception")
    ELSE order_result(TRUE, "none")

\* execute_order of trading/ye_meme_trader.py: the tests return a failure
\* result, a raising collaborator reaches the except branch.
ye_meme_execute_order(in_active, price, quote, swap_ix, transaction, tx_hash) ==
    IF ~in_active THEN order_result(FALSE, "Token not found in active trades")
    ELSE IF price = "raise" THEN on_exception("exception")
    ELSE IF price = "none" THEN order_result(FALSE, "Could not get current price")
    ELSE IF quote = "raise" THEN on_exception("exception")
    ELSE IF quote = "none" THEN order_result(FALSE, "Failed to get swap quote")
    ELSE IF swap_ix = "raise" THEN on_exception("exception")
    ELSE IF swap_ix = "none" THEN order_result(FALSE, "Failed to get swap instructions")
    ELSE IF transaction = "raise" THEN on_exception("exception")
    ELSE IF transaction = "none" THEN order_result(FALSE, "Failed to create transaction")
    ELSE IF tx_hash = "raise" THEN on_exception("exception")
    ELSE IF tx_hash = "none" THEN order_result(FALSE, "Failed to send transaction")
    ELSE order_result(TRUE, "none")

\* A call of execute_order of trading/trader.py.
execute_order_trader ==
    /\ \E has_amount \in BOOLEAN, price \in Outcomes, route \in Outcomes,
          impact_high \in BOOLEAN, tx \in SwapOutcomes :
        /\ eo_call' = [variant |-> "trader", has_amount |-> has_amount, price |-> price,
                       route |-> route, impact_high |-> impact_high, tx |-> tx]
        /\ eo_result' = trader_execute_order(has_amount, price, route, impact_high, tx)
    /\ UNCHANGED << traderVars, breakerVars, executeVars, sizingVars, ledgerVars,
                    notifyVars, botVars, flmVars >>

\* A call of execute_order of trading/ye_meme_trader.py.
execute_order_ye_meme ==
    /\ \E in_active \in BOOLEAN, price \in Outcomes, quote \in Outcomes,
          swap_ix \in Outcomes, transaction \in Outcomes, tx_hash \in Outcomes :
        /\ eo_call' = [variant |-> "ye_meme", in_active |-> in_active, price |-> price,
                       quote |-> quote, swap_ix |-> swap_ix,
                       transaction |-> transaction, tx_hash |-> tx_hash]
        /\ eo_result' = ye_meme_execute_order(in_active, price, quote, swap_ix,
                                              transaction, tx_hash)
    /\ UNCHANGED << traderVars, breakerVars, executeVars, sizingVars, ledgerVars,
                    notifyVars, botVars, flmVars >>

NextOrder ==
    \/ execute_order_trader
    \/ execute_order_ye_meme

SpecOrder == Init /\ [][NextOrder]_vars

\* ------------------------------------- the instance lock of bot.py (SpecBot)
\* acquire_lock(): the file is opened and flock(LOCK_EX | LOCK_NB) is tried;
\* the lock file object is returned when both went through, None otherwise.
acquire_lock_unchecked(lock, opened) == opened
acquire_lock(lock, opened) == opened /\ lock = 0

\* The positions of main() at which the instance has passed acquire_lock and
\* not yet released the lock.
Holding == {"init", "trading", "finally"}

\* main() from its start to the test of lock_fp: an instance that did not get
\* the lock logs the fact and exits with status 1.
main_acquire(i) ==
    /\ bot_pc[i] \in {"stopped", "refused"}
    /\ \E opened \in BOOLEAN :
        IF acquire_lock(yebot_lock, opened)
        THEN /\ bot_starts < MaxStarts
             /\ yebot_lock' = i
             /\ bot_pc' = [bot_pc EXCEPT ![i] = "init"]
             /\ bot_starts' = bot_starts + 1
        ELSE /\ bot_pc' = [bot_pc EXCEPT ![i] = "refused"]
             /\ UNCHANGED << yebot_lock, bot_starts >>
    /\ UNCHANGED << traderVars, breakerVars, executeVars, sizingVars, ledgerVars,
                    notifyVars, orderVars, flmVars >>

\* start_bot(): the components and the Telegram application are set up and
\* trading starts, or one of these steps raises.
start_bot_init(i) ==
    /\ bot_pc[i] = "init"
    /\ \E initialized \in BOOLEAN :
        bot_pc' = [bot_pc EXCEPT ![i] = IF initialized THEN "trading" ELSE "finally"]
    /\ UNCHANGED << yebot_lock, bot_starts >>
    /\ UNCHANGED << traderVars, breakerVars, executeVars, sizingVars, ledgerVars,
                    notifyVars, orderVars, flmVars >>

\* start_bot(): start_auto_trading returns or raises (an interrupt included).
start_bot_stop(i) ==
    /\ bot_pc[i] = "trading"
    /\ bot_pc' = [bot_pc EXCEPT ![i] = "finally"]
    /\ UNCHANGED << yebot_lock, bot_starts >>
    /\ UNCHANGED << traderVars, breakerVars, executeVars, sizingVars, ledgerVars,
                    notifyVars, orderVars, flmVars >>

\* start_bot(), the finally block: flock(LOCK_UN) and close; an exception
\* before them ends the process, which closes the file as well.
start_bot_release(i) ==
    /\ bot_pc[i] = "finally"
    /\ yebot_lock' = 0
    /\ bot_pc' = [bot_pc EXCEPT ![i] = "stopped"]
    /\ UNCHANGED bot_starts
    /\ UNCHANGED << traderVars, breakerVars, executeVars, sizingVars, ledgerVars,
                    notifyVars, orderVars, flmVars >>

\* The process of a running instance is killed: its files are closed by the
\* system and the flock goes with them.
bot_killed(i) ==
    /\ bot_pc[i] \in Holding
    /\ yebot_lock' = IF yebot_lock = i THEN 0 ELSE yebot_lock
    /\ bot_pc' = [bot_pc EXCEPT ![i] = "stopped"]
    /\ UNCHANGED bot_starts
    /\ UNCHANGED << traderVars, breakerVars, executeVars, sizingVars, ledgerVars,
                    notifyVars, orderVars, flmVars >>

NextBot ==
    \/ \E i \in Instances : main_acquire(i)
    \/ \E i \in Instances : start_bot_init(i)
    \/ \E i \in Instances : start_bot_stop(i)
    \/ \E i \in Instances : start_bot_release(i)
    \/ \E i \in Instances : bot_killed(i)

SpecBot == Init /\ [][NextBot]_vars

\* ------------------- FileLockManager and StateManager (SpecFileLock)
\* The positions inside the `with FileLockManager(...)` block.
InBlock == {"locked", "writing", "reading"}

\* save_state(state) / load_state() is called: __enter__ opens the .lock file.
flm_enter(p) ==
    /\ flm_pc[p] = "idle"
    /\ \E op \in {"save", "load"} : flm_op' = [flm_op EXCEPT ![p] = op]
    /\ flm_pc' = [flm_pc EXCEPT ![p] = "waiting"]
    /\ UNCHANGED << flm_lock, state_file >>
    /\ UNCHANGED << traderVars, breakerVars, executeVars, sizingVars, ledgerVars,
                    notifyVars, orderVars, botVars >>

\* __enter__, one turn of the loop: flock(LOCK_EX | LOCK_NB) succeeds and the
\* loop is left, or it gives IOError and the process sleeps 100 ms.
flm_flock(p) ==
    /\ flm_pc[p] = "waiting"
    /\ IF flm_lock = 0
       THEN /\ flm_lock' = p
            /\ flm_pc' = [flm_pc EXCEPT ![p] = "locked"]
       ELSE /\ flm_pc' = [flm_pc EXCEPT ![p] = "sleeping"]
            /\ UNCHANGED flm_lock
    /\ UNCHANGED << flm_op, state_file >>
    /\ UNCHANGED << traderVars, breakerVars, executeVars, sizingVars, ledgerVars,
                    notifyVars, orderVars, botVars >>

\* __enter__: the sleep is over, the loop tries again.
flm_wake(p) ==
    /\ flm_pc[p] = "sleeping"
    /\ flm_pc' = [flm_pc EXCEPT ![p] = "waiting"]
    /\ UNCHANGED << flm_lock, flm_op, state_file >>
    /\ UNCHANGED << traderVars, breakerVars, executeVars, sizingVars, ledgerVars,
                    notifyVars, orderVars, botVars >>

\* Inside the block: the state file is opened, 'w' (which empties it) for
\* save_state and 'r' for load_state.
flm_open(p) ==
    /\ flm_pc[p] = "locked"
    /\ IF flm_op[p] = "save"
       THEN /\ flm_pc' = [flm_pc EXCEPT ![p] = "writing"]
            /\ state_file' = "truncated"
       ELSE /\ flm_pc' = [flm_pc EXCEPT ![p] = "reading"]
            /\ UNCHANGED state_file
    /\ UNCHANGED << flm_lock, flm_op >>
    /\ UNCHANGED << traderVars, breakerVars, executeVars, sizingVars, ledgerVars,
                    notifyVars, orderVars, botVars >>

\* json.dump / json.load ends (or raises) and __exit__ releases the lock.
flm_exit(p) ==
    /\ flm_pc[p] \in {"writing", "reading"}
    /\ \E dumped \in BOOLEAN :
        state_file' = IF flm_pc[p] = "writing" /\ dumped THEN "complete" ELSE state_file
    /\ flm_lock' = 0
    /\ flm_pc' = [flm_pc EXCEPT ![p] = "idle"]
    /\ flm_op' = [flm_op EXCEPT ![p] = "none"]
    /\ UNCHANGED << traderVars, breakerVars, executeVars, sizingVars, ledgerVars,
                    notifyVars, orderVars, botVars >>

\* The steps a process takes by itself once save_state / load_state is called.
flm_run(p) ==
    \/ flm_flock(p)
    \/ flm_wake(p)
    \/ flm_open(p)
    \/ flm_exit(p)

NextFileLock ==
    \/ \E p \in Processes : flm_enter(p)
    \/ \E p \in Processes : flm_flock(p)
    \/ \E p \in Processes : flm_wake(p)
    \/ \E p \in Processes : flm_open(p)
    \/ \E p \in Processes : flm_exit(p)

\* Every process that is inside save_state / load_state keeps running.
SpecFileLock == Init /\ [][NextFileLock]_vars /\ \A p \in Processes : WF_vars(flm_run(p))

\* ---------------------------------------------------------------- claims
OpenBuys == {s \in SignalIds : BuyId(s) \in active_trades}

RECURSIVE SumAmounts(_)
SumAmounts(S) ==
    IF S = {} THEN 0
    ELSE LET s == CHOOSE x \in S : TRUE IN signals[s].amount + SumAmounts(S \ {s})

Quiescent == run_pc # "init" /\ \A k \in Tasks : ex_pc[k] = "idle"

\* C1: the available budget sol_budget always stays within [0, total
\* budget], the total being usd_budget at one of the SOL prices.
C1_BudgetWithinTotal ==
    /\ sol_budget >= 0
    /\ \E p \in SolPrices : sol_budget <= BudgetAt(p)

\* C2: no budget update is lost: while a buy's deduction is outstanding the
\* budget changes only by the deduction or the credit of a trade that
\* settles, applied to the value the previous one left.
C2_NoLostUpdate ==
    [][ sol_budget' # sol_budget =>
          \/ OpenBuys = {}
          \/ \E k \in Tasks :
                /\ ex_pc[k] = "commit"
                /\ sol_budget' = settle_budget(sol_budget, IsBuy(k), amount_sol(k)) ]_vars

\* C3: at most one live position per token: no two open buys in
\* active_trades are for the same token.
C3_OnePositionPerToken ==
    \A s1, s2 \in OpenBuys : signals[s1].token = signals[s2].token => s1 = s2

\* C4: the amount of a position is held back from the budget exactly while
\* the position is open: whenever no execute_trade is in flight, the budget
\* plus the amounts of the open positions is the total budget.
C4_CommittedMatchesOpenPositions ==
    Quiescent =>
        \/ sol_budget = 0 /\ OpenBuys = {}
        \/ \E p \in SolPrices : sol_budget + SumAmounts(OpenBuys) = BudgetAt(p)

\* C8: while a position is monitored, the highest price its monitor works
\* with never decreases from one tick to the next.
C8_HighestPriceMonotonic ==
    [][ \A s \in SignalIds :
          (mon_pc[s] = "poll" /\ mon_pc'[s] = "poll" /\ mon_highest[s] > 0)
              => mon_highest'[s] >= mon_highest[s] ]_vars

\* C9: a take-profit level fires at most once per position: once the
\* monitor of a position has fired take-profit, no later tick of that
\* position fires an exit again.
C9_TakeProfitFiresOnce ==
    [][ \A s \in SignalIds :
          mon_reason[s] = "take_profit"
              => ~(mon_pc[s] = "poll" /\ mon_pc'[s] = "closing") ]_vars

\* C9 witness: take-profit fired for a position and its close went through.
C9_Witness ==
    \E s \in SignalIds :
        /\ mon_reason[s] = "take_profit"
        /\ mon_pc[s] = "done"
        /\ BuyId(s) \notin active_trades
        /\ SellId(s) \in active_trades

\* C10: for a position entered at 100 whose monitor saw 130, the tick at
\* 103 closes the position with reason trailing_stop.
C10_TrailingStopScenario ==
    [][ \A s \in SignalIds :
          ( /\ entry_price[s] = 100
            /\ mon_pc[s] = "poll"
            /\ mon_price[s] = 130
            /\ mon_price'[s] = 103 )
              => (mon_pc'[s] = "closing" /\ mon_reason'[s] = "trailing_stop") ]_vars
\* C11: with a budget of 10 SOL, a submission of confidence 1.0 reserves 5
\* SOL, a second one reserves the remaining 5 SOL, and a third one is
\* rejected for insufficient budget: three submissions of 5 SOL are never
\* all reserved.
C11_BudgetScenario ==
    Cardinality({i \in Submissions :
                    /\ sz_pc[i] = "reserved"
                    /\ sz_conf[i] = 10
                    /\ sz_amount[i] * 2 = BudgetAt(2)}) <= 2

\* C5: once daily_loss has reached max_daily_loss, every
\* check_circuit_breaker() call made before the window expires returns
\* False, and daily_loss is lowered by nothing but the reset of an expired
\* window (a profitable trade does not lower it).
C5_LossHaltSticky ==
    [][ /\ ( check_circuit_breaker
             /\ daily_loss >= max_daily_loss
             /\ ~window_expired(now, last_reset) ) => ret' = "False"
        /\ daily_loss' < daily_loss =>
             (window_expired(now, last_reset) /\ daily_loss' = 0) ]_vars

\* C5 witness: the breaker answered False on the loss test after several
\* trades were recorded.
C5_Witness ==
    /\ ret = "False"
    /\ stop_loss_triggered
    /\ ~emergency_stop
    /\ daily_loss >= max_daily_loss
    /\ daily_trades >= 3
    /\ daily_trades < max_daily_trades

\* C6: after max_errors recorded errors, every check_circuit_breaker() call
\* made while now - last_error_time < error_timeout returns False.
C6_ErrorGateHolds ==
    [][ ( check_circuit_breaker
          /\ error_count >= max_errors
          /\ now - last_error_time < error_timeout ) => ret' = "False" ]_vars

C12_DailyReset ==
    [][ check_circuit_breaker =>
          /\ now - last_reset >= one_day =>
                (last_reset' = now /\ daily_trades' = 0 /\ daily_loss' = 0)
          /\ now - last_reset < one_day =>
                /\ last_reset' = last_reset
                /\ daily_trades' = daily_trades
                /\ daily_loss' = daily_loss ]_vars

\* C13: recording a trade leaves error_count and last_error_time unchanged,
\* and error_count goes down only when max_errors errors were counted and
\* error_timeout has elapsed since the last one.
C13_ErrorCountFrame ==
    [][ /\ daily_trades' = daily_trades + 1 =>
              (error_count' = error_count /\ last_error_time' = last_error_time)
        /\ error_count' < error_count =>
              /\ error_count >= max_errors
              /\ now - last_error_time >= error_timeout ]_vars

\* C14: a halt on the daily loss ends at the next daily reset: the
\* check_circuit_breaker() call that resets an expired window clears the halt
\* and, with no emergency stop, returns True.
C14_LossHaltEndsAtReset ==
    [][ ( /\ check_circuit_breaker
          /\ window_expired(now, last_reset)
          /\ stop_loss_triggered
          /\ ~emergency_stop
          /\ trading_enabled )
            => (ret' = "True" /\ ~stop_loss_triggered') ]_vars

\* C15: when its check_circuit_breaker() call returns False, execute_trade
\* returns at once: no balance query, no validation and no swap follow, and
\* no trade is recorded.
C15_RejectedImmediately ==
    [][ (breaker_execute_trade /\ ret' = "False") =>
          /\ et_pc' = "idle"
          /\ et_result' = "skipped"
          /\ daily_trades' <= daily_trades
          /\ daily_loss' <= daily_loss ]_vars

\* C15 witness: an execute_trade call was turned down by the limits of the
\* breaker (not by an emergency stop) after trades had been recorded.
C15_Witness ==
    /\ et_result = "skipped"
    /\ et_pc = "idle"
    /\ ret = "False"
    /\ ~emergency_stop
    /\ daily_trades > 0

\* C16: a failed price fetch never closes the position and never ends its
\* monitoring: after it the monitor polls again, the position is still in
\* active_trades and no close is under way.
C16_FailedFetchKeepsPolling ==
    [][ \A s \in SignalIds :
          mon_fails'[s] > mon_fails[s] =>
              /\ mon_pc'[s] = "poll"
              /\ active_trades' = active_trades
              /\ ex_pc'[s] = "idle" ]_vars

\* C16 witness: a monitor whose fetch failed MaxFetchFailures times in a row
\* still polls its open position.
C16_Witness ==
    \E s \in SignalIds :
        /\ mon_fails[s] = MaxFetchFailures
        /\ mon_pc[s] = "poll"
        /\ mon_price[s] > 0
        /\ BuyId(s) \in active_trades

\* C17: when the close swap of a position fails, the position stays open and
\* its monitor goes back to polling.
C17_FailedCloseKeepsMonitor ==
    [][ \A s \in SignalIds :
          (mon_pc[s] = "closing" /\ ex_pc[s] = "false" /\ mon_pc'[s] # "closing")
              => (mon_pc'[s] = "poll" /\ BuyId(s) \in active_trades') ]_vars

\* C18: each signal is consumed once: the signals an iteration of run() still
\* has to process were not processed by run() before.
C18_ConsumedOnce == pending_trades \cap processed = {}

\* C19: retries are bounded: run() never makes MaxAttempts swap attempts in a
\* row that fail for the same signal.
C19_RetriesBounded == \A s \in SignalIds : attempts[s] < MaxAttempts

\* C20: a swap call of execute_trade that raises or returns no result is
\* recorded as an error (error_count incremented, last_error_time updated)
\* and records no trade.
C20_FailedSwapRecorded ==
    [][ (et_pc = "swap" /\ et_pc' = "idle" /\ et_result' \in {"raised", "no_result"}) =>
          /\ error_count' = error_count + 1
          /\ last_error_time' = now
          /\ daily_trades' = daily_trades ]_vars

\* C21: a token turned down by validate_token inside execute_trade is not a
\* circuit-breaker error: the rejection leaves error_count, last_error_time,
\* daily_trades and daily_loss as they were and the call ends without a swap.
C21_RejectionNotAnError ==
    [][(et_pc = "validate" /\ et_result' = "invalid")
        => /\ error_count' = error_count
           /\ last_error_time' = last_error_time
           /\ daily_trades' = daily_trades
           /\ daily_loss' = daily_loss
           /\ et_pc' = "idle"]_vars

\* C21 witness: a buy was turned down by validate_token while the breaker
\* already held recorded errors and trades.
C21_Witness ==
    /\ et_result = "invalid"
    /\ et_pc = "idle"
    /\ error_count > 0
    /\ daily_trades > 0

\* The exit a tick would take under the order take profit, trailing stop,
\* static stop loss.
PriorityExit(initial, current) ==
    IF take_profit_hit(initial, current) THEN "take_profit"
    ELSE IF trailing_stop_hit(highest_price(initial, current), current) THEN "trailing_stop"
    ELSE IF stop_loss_hit(initial, current) THEN "stop_loss"
    ELSE "none"

\* C22: on a successful price tick the monitor tests its exits in the order
\* take profit, trailing stop, static stop loss: the exit that closes the
\* position is the first of these that the tick's price satisfies.
C22_ExitPriority ==
    [][\A s \in SignalIds :
        (mon_pc[s] = "poll" /\ mon_pc'[s] = "closing")
            => mon_reason'[s] = PriorityExit(entry_price[s], mon_price'[s])]_vars

\* C23: while the price has never risen above the entry price (the trailing
\* stop cannot be armed yet), the trailing stop never closes the position at
\* a price above the static stop-loss price.
C23_TrailingNotTighterUnarmed ==
    [][\A s \in SignalIds :
        (/\ mon_pc[s] = "poll"
         /\ mon_highest[s] <= entry_price[s]
         /\ mon_pc'[s] = "closing"
         /\ mon_reason'[s] = "trailing_stop")
            => mon_price'[s] * 100 <= entry_price[s] * (100 + stop_loss_pct)]_vars

\* C24: a trade with a stored cancel request (trade_action:<id> = "cancel")
\* that is not yet an open position is cancelled and gets no swap: run()
\* never hands a signal to execute_trade while its cancel request is stored.
C24_CancelledNeverSwapped ==
    [][(/\ run_pc = "loop"
        /\ run_pc' = "exec"
        /\ BuyId(run_trade') \notin active_trades)
            => run_trade' \notin trade_action]_vars

\* C26: a failing state store never leaves an executed swap untracked: every
\* execute_trade call whose swap succeeded ends with the trade entered into
\* active_trades and with the answer True.
C26_SwapAlwaysTracked ==
    [][\A k \in Tasks :
        (ex_pc[k] = "commit" /\ ex_pc'[k] # "commit")
            => (TradeId(k) \in active_trades' /\ ex_pc'[k] = "true")]_vars

\* C29: once the closing sell of a position has gone through and
\* close_position has returned, the position is no longer among the active
\* trades.
C29_ClosedPositionRemoved ==
    \A s \in SignalIds :
        (SellId(s) \in active_trades /\ ex_pc[s] = "idle")
            => BuyId(s) \notin active_trades

\* x clamped to the range [lo, hi].
Clamp(x, lo, hi) == IF x < lo THEN lo ELSE IF x > hi THEN hi ELSE x

\* C27: calculate_trade_amount returns confidence * available budget * the
\* single-trade fraction (one half), clamped to the range
\* [min_trade_amount_sol, max_trade_amount_sol].
C27_SizingClamped ==
    [][\A i \in Submissions :
        (sz_pc[i] = "sizing" /\ sz_pc'[i] = "sized")
            => sz_amount'[i] = Clamp((sol_budget * 5 * sz_conf[i]) \div 100,
                                     min_trade_amount_sol, max_trade_amount_sol)]_vars

\* C27 witness: one submission was raised to min_trade_amount_sol, one was cut
\* down to max_trade_amount_sol, and one got the plain product.
C27_Witness ==
    \E i, j, k \in Submissions :
        /\ sz_pc[i] # "new" /\ sz_pc[i] # "sizing"
        /\ sz_conf[i] = 0 /\ sz_amount[i] = min_trade_amount_sol
        /\ sz_pc[j] = "reserved"
        /\ sz_conf[j] = 10 /\ sz_amount[j] = max_trade_amount_sol
        /\ sz_pc[k] = "sized"
        /\ sz_conf[k] = 5 /\ sz_amount[k] > min_trade_amount_sol
        /\ sz_amount[k] < max_trade_amount_sol

\* C30: the amount calculate_trade_amount returns never exceeds the available
\* budget sol_budget.
C30_AmountWithinBudget ==
    [][\A i \in Submissions :
        (sz_pc[i] = "sizing" /\ sz_pc'[i] = "sized")
            => sz_amount'[i] <= sol_budget]_vars

\* How often the trade placed at `stamp` occurs in a list of trades.
Occurrences(trades, stamp) ==
    Cardinality({n \in 1 .. Len(trades) : trades[n].timestamp = stamp})

RECURSIVE SumProfit(_, _)
SumProfit(history, n) ==
    IF n = 0 THEN 0 ELSE SumProfit(history, n - 1) + history[n].profit_sol

\* C28: every trade accepted by place_trade is in exactly one of
\* active_trades and trades_history, once (close_trade moves it from the one
\* to the other exactly once), and total_profit_sol is the sum of profit_sol
\* over trades_history.
C28_ArchivedOnClose ==
    /\ \A stamp \in 1 .. yt_placed :
        Occurrences(yt_active, stamp) + Occurrences(yt_history, stamp) = 1
    /\ \A n \in 1 .. Len(yt_active) : yt_active[n].timestamp \in 1 .. yt_placed
    /\ \A n \in 1 .. Len(yt_history) : yt_history[n].timestamp \in 1 .. yt_placed
    /\ total_profit_sol = SumProfit(yt_history, Len(yt_history))

\* C28 witness: trades were closed by the stop loss and by the take profit,
\* another one is still active, and the total is not zero.
C28_Witness ==
    /\ Len(yt_active) >= 1
    /\ \E n, m \in 1 .. Len(yt_history) :
        /\ yt_history[n].reason = "stop_loss"
        /\ yt_history[m].reason = "take_profit"
    /\ total_profit_sol # 0

\* C25: a failing notification never changes the reported trade outcome:
\* buy_token and sell_token return True exactly when the safety check and
\* the quote went through, whether add_notification succeeded or raised.
C25_NotificationFailureHarmless ==
    st_call.op # "none"
        => (st_ret = "True" <=> (st_call.safe /\ st_call.quoted))

\* C31: daily_trades counts opened positions: a closing sell that goes
\* through execute_trade does not increase it.
C31_CloseNotCounted ==
    [][(et_pc = "swap" /\ et_action = "sell") => daily_trades' = daily_trades]_vars

\* C32: a tripped circuit breaker blocks opening only: an execute_trade call
\* that closes a position (action "sell") is never turned down by the
\* breaker.
C32_SellNeverBlocked ==
    ~(et_pc = "idle" /\ et_action = "sell" /\ et_result = "skipped")

\* C33: the validation inside execute_trade accepts every token trading_loop
\* hands over (execute_trade(..., "buy") is called for validated tokens
\* only): with the breaker open and enough balance the buy reaches the swap.
C33_ValidatedTokenBought ==
    [][(et_pc = "validate" /\ et_action = "buy") => et_pc' = "swap"]_vars

\* C34: the emergency stop is absorbing: once set it stays set, and every
\* check_circuit_breaker() call made while it is set returns False, whatever
\* reset, timeout or recorded trade came in between.
C34_EmergencyStopAbsorbing ==
    [][ /\ emergency_stop => emergency_stop'
        /\ (check_circuit_breaker /\ emergency_stop) => ret' = "False" ]_vars

\* C34 witness: after the emergency stop a check_circuit_breaker() call reset
\* an expired window, found every counter at zero and still returned False.
C34_Witness ==
    /\ emergency_stop
    /\ ret = "False"
    /\ last_reset > 0
    /\ daily_trades = 0
    /\ daily_loss = 0
    /\ error_count = 0
    /\ ~stop_loss_triggered

\* C35: the number of active trades never exceeds max_concurrent_trades, and
\* a place_trade call made at the limit returns False and leaves
\* active_trades and the saved state as they were.
C35_BoundedExposure ==
    [][ /\ Len(yt_active') <= max_concurrent_trades
        /\ (place_trade /\ Len(yt_active) >= max_concurrent_trades)
              => /\ yt_ret' = "False"
                 /\ yt_active' = yt_active
                 /\ yt_saved' = yt_saved ]_vars

\* C35 witness: place_trade was turned down at the limit after earlier
\* trades had been closed and their places taken again.
C35_Witness ==
    /\ yt_ret = "False"
    /\ Len(yt_active) = max_concurrent_trades
    /\ Len(yt_history) >= 1

\* The swap transaction of the latest execute_order call was reported as sent.
SwapReportedSent ==
    \/ /\ eo_call.variant = "trader"
       /\ eo_call.has_amount /\ eo_call.price = "ok" /\ eo_call.route = "ok"
       /\ ~eo_call.impact_high /\ eo_call.tx \in {"sent", "no_hash"}
    \/ /\ eo_call.variant = "ye_meme"
       /\ eo_call.in_active /\ eo_call.price = "ok" /\ eo_call.quote = "ok"
       /\ eo_call.swap_ix = "ok" /\ eo_call.transaction = "ok"
       /\ eo_call.tx_hash = "ok"

\* The latest execute_order call met one of the failures: no amount, no
\* price, no route or quote, a price impact too high, a transaction that was
\* not sent, or a collaborator that raised.
FailurePath ==
    \/ /\ eo_call.variant = "trader"
       /\ \/ ~eo_call.has_amount
          \/ eo_call.price # "ok"
          \/ eo_call.route # "ok"
          \/ eo_call.impact_high
          \/ eo_call.tx \in {"failed", "none", "raise"}
    \/ /\ eo_call.variant = "ye_meme"
       /\ \/ ~eo_call.in_active
          \/ eo_call.price # "ok"
          \/ eo_call.quote # "ok"
          \/ eo_call.swap_ix # "ok"
          \/ eo_call.transaction # "ok"
          \/ eo_call.tx_hash # "ok"

\* C36: execute_order never raises and always returns a result: on every
\* failure path the result has success false and an error reason, and
\* success is true only when the swap transaction was reported as sent.
C36_StructuredResult ==
    eo_call.variant # "none" =>
        /\ ~eo_result.raised
        /\ FailurePath => ~eo_result.success
        /\ ~eo_result.success => eo_result.error # "none"
        /\ eo_result.success => SwapReportedSent

\* C36 witness: the swap call of execute_order raised after price, route and
\* price impact were fine, and the caller got a failure result.
C36_Witness ==
    /\ eo_call.variant = "trader"
    /\ eo_call.has_amount /\ eo_call.price = "ok" /\ eo_call.route = "ok"
    /\ ~eo_call.impact_high
    /\ eo_call.tx = "raise"
    /\ ~eo_result.raised
    /\ ~eo_result.success
    /\ eo_result.error = "exception"

\* C37: at most one instance runs at a time: an instance is past acquire_lock
\* only while it holds the lock; an instance started while another holds the
\* lock exits without initializing; and the lock is free again as soon as
\* the instance that held it has shut down.
C37_SingleInstance ==
    [][ /\ \A i \in Instances : bot_pc'[i] \in Holding => yebot_lock' = i
        /\ \A i \in Instances :
              (bot_pc[i] \notin Holding /\ yebot_lock # 0 /\ bot_pc'[i] # bot_pc[i])
                  => bot_pc'[i] = "refused"
        /\ \A i \in Instances :
              (bot_pc[i] \in Holding /\ bot_pc'[i] \notin Holding)
                  => yebot_lock' = 0 ]_vars

\* C37 witness: an instance is trading on a lock that an earlier instance
\* held and released, and another instance was refused meanwhile.
C37_Witness ==
    /\ bot_starts >= 2
    /\ \E i, j \in Instances :
        /\ bot_pc[i] = "trading"
        /\ yebot_lock = i
        /\ bot_pc[j] = "refused"

\* C38: FileLockManager gives mutual exclusion and progress: at most one
\* process is inside a FileLockManager block of the file at any time, and a
\* process waiting in __enter__ eventually gets the lock.
C38_ExclusionAndProgress ==
    /\ [](Cardinality({p \in Processes : flm_pc[p] \in InBlock}) <= 1)
    /\ \A p \in Processes :
          (flm_pc[p] \in {"waiting", "sleeping"}) ~> (flm_pc[p] \in InBlock)

====
